---- MODULE Spec2Model ----
(***************************************************************************)
(* Model of src/phylo_cnv/species.py: the species-abundance pipeline       *)
(* (estimate_abundance and the functions it calls) and the genome-cluster  *)
(* selection (select_genome_clusters).                                     *)
(*                                                                         *)
(* Text.  A line of a file is the sequence of its whitespace-separated     *)
(* tokens (what line.rstrip().split() returns) and a token is the sequence *)
(* of its '_'-separated parts (what token.split('_') returns), each part a *)
(* string.  A token with one part is written <<"A">>.  Dictionaries are    *)
(* functions whose domain is a set of tokens or of field names.            *)
(*                                                                         *)
(* Numbers.  int() and float() are the partial function Numeral on the     *)
(* texts the inputs use; a text outside it raises ValueError.  Python      *)
(* floats are modelled by exact rationals <<numerator, denominator>>.      *)
(*                                                                         *)
(* Exceptions.  A function that can raise returns [err, val]: err is ""    *)
(* or the name of the exception, which no caller in the file catches.      *)
(***************************************************************************)
EXTENDS Integers, Sequences, FiniteSets, TLC

\* ------------------------------------------------------------------ bounds
\* Number of lines of the alignment file (paths['blastout']).
MaxLines == 4

\* ------------------------------------------------------------------ text
Numeral ==
    ("0" :> 0) @@ ("1" :> 1) @@ ("2" :> 2) @@ ("3" :> 3) @@ ("4" :> 4) @@
    ("5" :> 5) @@ ("8" :> 8) @@ ("90" :> 90) @@ ("95" :> 95) @@ ("99" :> 99)

IsNumber(tok) == Len(tok) = 1 /\ tok[1] \in DOMAIN Numeral

Last(s) == s[Len(s)]

Ok(v) == [err |-> "", val |-> v]

Raise(e) == [err |-> e, val |-> <<>>]

Range(s) == {s[k] : k \in DOMAIN s}

RECURSIVE SumOver(_, _)
SumOver(f, S) ==
    IF S = {} THEN 0
    ELSE LET x == CHOOSE y \in S : TRUE IN f[x] + SumOver(f, S \ {x})

\* ------------------------------------------------------------------ parse_blast
formats ==
    <<"str", "str", "float", "int", "float", "float", "float", "float",
      "float", "float", "float", "float">>

fields ==
    <<"query", "target", "pid", "aln", "mis", "gaps", "qstart", "qend",
      "tstart", "tend", "evalue", "score">>

\* zip(fields, formats, values) stops at the shortest of the three.
zipped(values) == 1 .. (IF Len(values) < Len(fields) THEN Len(values) ELSE Len(fields))

\* The position of each field in fields.
field_index ==
    [query |-> 1, target |-> 2, pid |-> 3, aln |-> 4, mis |-> 5, gaps |-> 6,
     qstart |-> 7, qend |-> 8, tstart |-> 9, tend |-> 10, evalue |-> 11, score |-> 12]

\* One record of parse_blast: dict of format(value) per zipped field.
parse_blast(values) ==
    IF \E k \in zipped(values) : formats[k] # "str" /\ ~IsNumber(values[k])
    THEN Raise("ValueError")
    ELSE Ok([f \in {fields[k] : k \in zipped(values)} |->
                IF formats[field_index[f]] = "str"
                THEN values[field_index[f]]
                ELSE Numeral[values[field_index[f]][1]]])

\* ------------------------------------------------------------------ get_markers
RECURSIVE get_markers_from(_, _, _)
get_markers_from(infile, k, marker_cutoffs) ==
    IF k > Len(infile) THEN Ok(marker_cutoffs)
    ELSE LET line == infile[k] IN
         IF Len(line) # 2 THEN Raise("ValueError")
         ELSE IF ~IsNumber(line[2]) THEN Raise("ValueError")
         ELSE get_markers_from(infile, k + 1,
                  (line[1] :> Numeral[line[2][1]]) @@ marker_cutoffs)

get_markers(infile) == get_markers_from(infile, 1, <<>>)

\* ------------------------------------------------------------------ find_best_hits
\* The threshold 0.75 of line 84, as the fraction QcovNum / QcovDen.
QcovNum == 3

QcovDen == 4

\* aln['target'].split('_')[-1]
marker_id_of(aln) == <<Last(aln.target)>>

\* aln['target'].split('_')[0]
cluster_id_of(aln) == <<aln.target[1]>>

\* aln['pid'] < marker_cutoffs[marker_id]
below_cutoff(aln, marker_cutoffs) == aln.pid < marker_cutoffs[marker_id_of(aln)]

\* float(aln['aln'])/int(aln['query'].split('_')[-1]), as <<numerator, denominator>>.
query_coverage(aln) ==
    IF "aln" \notin DOMAIN aln THEN Raise("KeyError")
    ELSE IF Last(aln.query) \notin DOMAIN Numeral THEN Raise("ValueError")
    ELSE IF Numeral[Last(aln.query)] = 0 THEN Raise("ZeroDivisionError")
    ELSE Ok(<<aln.aln, Numeral[Last(aln.query)]>>)

\* Mutant of local_alignment: the threshold is 0.5.
local_alignment_half(qcov) == qcov[1] * 2 < qcov[2]

\* query_coverage(aln) < 0.75
local_alignment(qcov) == qcov[1] * QcovDen < QcovNum * qcov[2]

\* Mutant of update_best_hits: a record of equal score replaces the group.
update_best_hits_tie_replaces(best_hits, aln) ==
    IF aln.query \notin DOMAIN best_hits
    THEN Ok((aln.query :> <<aln>>) @@ best_hits)
    ELSE IF "score" \notin DOMAIN best_hits[aln.query][1] \/ "score" \notin DOMAIN aln
    THEN Raise("KeyError")
    ELSE IF best_hits[aln.query][1].score <= aln.score
    THEN Ok([best_hits EXCEPT ![aln.query] = <<aln>>])
    ELSE Ok(best_hits)

\* The last three branches of the loop body: record, add or update aln.
update_best_hits(best_hits, aln) ==
    IF aln.query \notin DOMAIN best_hits
    THEN Ok((aln.query :> <<aln>>) @@ best_hits)
    ELSE IF "score" \notin DOMAIN best_hits[aln.query][1] \/ "score" \notin DOMAIN aln
    THEN Raise("KeyError")
    ELSE IF best_hits[aln.query][1].score = aln.score
    THEN Ok([best_hits EXCEPT ![aln.query] = Append(@, aln)])
    ELSE IF best_hits[aln.query][1].score < aln.score
    THEN Ok([best_hits EXCEPT ![aln.query] = <<aln>>])
    ELSE Ok(best_hits)

\* The loop body of find_best_hits for one line of the alignment file.
best_hits_step(best_hits, marker_cutoffs, values) ==
    LET p == parse_blast(values) IN
    IF p.err # "" THEN Raise(p.err)
    ELSE LET aln == p.val IN
         IF "target" \notin DOMAIN aln THEN Raise("KeyError")
         ELSE IF "pid" \notin DOMAIN aln THEN Raise("KeyError")
         ELSE IF marker_id_of(aln) \notin DOMAIN marker_cutoffs THEN Raise("KeyError")
         ELSE IF below_cutoff(aln, marker_cutoffs) THEN Ok(best_hits)
         ELSE LET c == query_coverage(aln) IN
              IF c.err # "" THEN Raise(c.err)
              ELSE IF local_alignment(c.val) THEN Ok(best_hits)
              ELSE update_best_hits(best_hits, aln)

\* ------------------------------------------------------------------ assign_unique
\* Mutant of cluster_keys: the first line of the registry is skipped as a header.
cluster_keys_skip_header(lines) ==
    IF \E k \in DOMAIN lines : Len(lines[k]) = 0 THEN Raise("IndexError")
    ELSE Ok({lines[k][1] : k \in DOMAIN lines \ {1}})

\* dict([(x.rstrip().split()[0], ...) for x in open(paths['cluster_ids']).readlines()]):
\* the keys, one per registry line (its first token).
cluster_keys(lines) ==
    IF \E k \in DOMAIN lines : Len(lines[k]) = 0 THEN Raise("IndexError")
    ELSE Ok({lines[k][1] : k \in DOMAIN lines})

\* Mutant of is_unique: len(aln) >= 1.
is_unique_or_tied(aln) == Len(aln) >= 1

\* len(aln) == 1
is_unique(aln) == Len(aln) = 1

\* The loop of assign_unique over alns[k..]; lists maps each key to its list.
RECURSIVE assign_unique_from(_, _, _)
assign_unique_from(alns, k, lists) ==
    IF k > Len(alns) THEN Ok(lists)
    ELSE IF is_unique(alns[k])
    THEN IF cluster_id_of(alns[k][1]) \notin DOMAIN lists THEN Raise("KeyError")
         ELSE assign_unique_from(alns, k + 1,
                  [lists EXCEPT ![cluster_id_of(alns[k][1])] = Append(@, alns[k][1])])
    ELSE assign_unique_from(alns, k + 1, lists)

\* ------------------------------------------------------------------ assign_non_unique
\* len(aln) > 1
is_non_unique(aln) == Len(aln) > 1

\* clusters = [x['target'].split('_')[0] for x in aln]
clusters_of(aln) == [k \in DOMAIN aln |-> cluster_id_of(aln[k])]

\* counts = [len(unique_alns[x]) for x in clusters]; the lists live in the heap.
counts_of(clusters, unique_alns, heap) ==
    [k \in DOMAIN clusters |-> Len(heap[unique_alns[clusters[k]]])]

RECURSIVE SeqSum(_)
SeqSum(s) == IF s = <<>> THEN 0 ELSE Head(s) + SeqSum(Tail(s))

\* The positions sample(clusters, 1) or np.random.choice(clusters, 1, p=probs) can
\* draw: any position when every count is 0, else the positions of non-zero
\* probability float(count)/sum(counts).
drawable(clusters, counts) ==
    IF SeqSum(counts) = 0 THEN DOMAIN clusters
    ELSE {k \in DOMAIN clusters : counts[k] > 0}

\* clusters.index(cluster_id): the first position holding cluster_id.
index(clusters, cluster_id) ==
    CHOOSE k \in DOMAIN clusters :
        clusters[k] = cluster_id /\ \A j \in 1 .. (k - 1) : clusters[j] # cluster_id

\* Mutant of chosen_record: aln[0], whatever cluster was drawn.
chosen_record_first(aln, clusters, cluster_id) == aln[1]

\* aln[clusters.index(cluster_id)]
chosen_record(aln, clusters, cluster_id) == aln[index(clusters, cluster_id)]

\* ------------------------------------------------------------------ rationals
RECURSIVE Gcd(_, _)
Gcd(a, b) == IF b = 0 THEN a ELSE Gcd(b, a % b)

\* The rational n/d (d > 0) in lowest terms.
Rat(n, d) == LET g == Gcd(n, d) IN <<n \div g, d \div g>>

RatAdd(x, y) == Rat(x[1] * y[2] + y[1] * x[2], x[2] * y[2])

RatDiv(x, y) == Rat(x[1] * y[2], x[2] * y[1])

Zero == Rat(0, 1)

RECURSIVE RatSum(_, _)
RatSum(f, S) ==
    IF S = {} THEN Zero
    ELSE LET x == CHOOSE y \in S : TRUE IN RatAdd(f[x], RatSum(f, S \ {x}))

\* ------------------------------------------------------------------ read_gene_lengths
RECURSIVE read_gene_lengths_from(_, _, _)
read_gene_lengths_from(lines, k, total_gene_length) ==
    IF k > Len(lines) THEN Ok(total_gene_length)
    ELSE LET line == lines[k] IN
         IF Len(line) = 0 THEN Raise("IndexError")
         ELSE IF Len(line) < 2 THEN Raise("IndexError")
         ELSE IF ~IsNumber(line[2]) THEN Raise("ValueError")
         ELSE IF <<line[1][1]>> \notin DOMAIN total_gene_length THEN Raise("KeyError")
         ELSE read_gene_lengths_from(lines, k + 1,
                  [total_gene_length EXCEPT ![<<line[1][1]>>] = @ + Numeral[line[2][1]]])

read_gene_lengths(registry, lines) ==
    LET keys == cluster_keys(registry) IN
    IF keys.err # "" THEN Raise(keys.err)
    ELSE read_gene_lengths_from(lines, 1, [c \in keys.val |-> 0])

\* ------------------------------------------------------------------ normalize_counts
\* bp = sum([aln['aln'] for aln in alns])
bp_of(alns) == SeqSum([k \in DOMAIN alns |-> alns[k].aln])

\* Mutant of coverage: a zero gene length gives coverage 0.0.
coverage_zero_length_is_zero(alns, gene_length) ==
    IF Len(alns) > 0 /\ gene_length # 0
    THEN Ok(Rat(bp_of(alns), gene_length))
    ELSE Ok(Zero)

\* cov of one cluster: float(bp)/total_gene_length[cluster_id] or 0.0.
coverage(alns, gene_length) ==
    IF Len(alns) > 0
    THEN IF gene_length = 0 THEN Raise("ZeroDivisionError")
         ELSE Ok(Rat(bp_of(alns), gene_length))
    ELSE Ok(Zero)

\* total_cov = sum([_['cov'] for _ in cluster_abundance.values()])
total_cov_of(cov) == RatSum(cov, DOMAIN cov)

\* Mutant of rel_abun_of: the coverage is not divided by the total.
rel_abun_unnormalized(cov, total_cov) == IF total_cov[1] > 0 THEN cov ELSE Zero

\* cov/total_cov if total_cov > 0 else 0
rel_abun_of(cov, total_cov) == IF total_cov[1] > 0 THEN RatDiv(cov, total_cov) ELSE Zero

normalize_counts(cluster_alns, heap, total_gene_length) ==
    IF \E c \in DOMAIN cluster_alns :
           Len(heap[cluster_alns[c]]) > 0 /\ c \notin DOMAIN total_gene_length
    THEN Raise("KeyError")
    ELSE LET cov == [c \in DOMAIN cluster_alns |->
                        coverage(heap[cluster_alns[c]],
                                 IF c \in DOMAIN total_gene_length
                                 THEN total_gene_length[c] ELSE 0)]
         IN  IF \E c \in DOMAIN cov : cov[c].err # "" THEN Raise("ZeroDivisionError")
             ELSE LET total_cov == total_cov_of([c \in DOMAIN cov |-> cov[c].val])
                  IN  Ok([c \in DOMAIN cov |->
                            [cov |-> cov[c].val,
                             rel_abun |-> rel_abun_of(cov[c].val, total_cov)]])

\* The optional rescaling of estimate_abundance: rel_abun = cov/genomes.
rescale(cluster_abundance, genomes) ==
    IF genomes[1] = 0 /\ DOMAIN cluster_abundance # {} THEN Raise("ZeroDivisionError")
    ELSE Ok([c \in DOMAIN cluster_abundance |->
                [cov |-> cluster_abundance[c].cov,
                 rel_abun |-> RatDiv(cluster_abundance[c].cov, genomes)]])

\* ------------------------------------------------------------------ write_abundance
header == <<"cluster_id", "coverage", "relative_abundance">>

\* The lines written for the clusters taken in the order `order` of the dict.
write_abundance(cluster_abundance, order) ==
    <<header>> \o [k \in DOMAIN order |->
        <<order[k], cluster_abundance[order[k]].cov, cluster_abundance[order[k]].rel_abun>>]

\* The orders in which a dict with the keys S can be iterated.
Orders(S) ==
    {o \in [1 .. Cardinality(S) -> S] : \A a, b \in DOMAIN o : a # b => o[a] # o[b]}

\* ------------------------------------------------------------------ read_abundance
\* The dict read from the lines of a species profile after its header line:
\* zip(fields[1:], values[1:]) gives cov and rel_abun from the 2nd and 3rd token.
profile_fields == <<"cov", "rel_abun">>

read_abundance(lines) ==
    IF \E k \in DOMAIN lines : Len(lines[k]) = 0 THEN Raise("IndexError")
    ELSE IF \E k \in DOMAIN lines : \E m \in 2 .. Len(lines[k]) :
                m <= 3 /\ ~IsNumber(lines[k][m])
    THEN Raise("ValueError")
    ELSE Ok([c \in {lines[k][1] : k \in DOMAIN lines} |->
                LET k == CHOOSE m \in DOMAIN lines :
                             lines[m][1] = c /\ \A n \in DOMAIN lines : lines[n][1] = c => n <= m
                    n == IF Len(lines[k]) - 1 < 2 THEN Len(lines[k]) - 1 ELSE 2
                IN  [f \in {profile_fields[m] : m \in 1 .. n} |->
                        Numeral[lines[k][IF f = "cov" THEN 2 ELSE 3][1]]]])

\* ------------------------------------------------------------------ select_genome_clusters
\* args[name] is truthy: a criterion that was supplied is a key of args.
given(args_, name) == name \in DOMAIN args_

\* The lists sorted(cluster_abundance, key=rel_abun, reverse=True) can return:
\* descending rel_abun, ties in the order of the dict, which is any order.
sorted_abundances(cluster_abundance) ==
    {o \in Orders(DOMAIN cluster_abundance) :
        \A a, b \in DOMAIN o :
            a < b => cluster_abundance[o[a]].rel_abun >= cluster_abundance[o[b]].rel_abun}

\* The key under which the clusters of args['gc_id'] are stored (line 294).
gc_id_key == "gc_rbun"

\* cluster_sets, lines 269-296.
cluster_sets_of(args_, cluster_abundance, sorted_abundance) ==
    LET from_profile ==
            [k \in {n \in {"gc_cov", "gc_rbun", "gc_topn"} : given(args_, n)} |->
                IF k = "gc_cov"
                THEN {c \in DOMAIN cluster_abundance :
                         cluster_abundance[c].cov >= args_.gc_cov}
                ELSE IF k = "gc_rbun"
                THEN {c \in DOMAIN cluster_abundance :
                         cluster_abundance[c].rel_abun >= args_.gc_rbun}
                ELSE {sorted_abundance[m] :
                         m \in {n \in DOMAIN sorted_abundance : n <= args_.gc_topn}}]
    IN  IF given(args_, "gc_id")
        THEN (gc_id_key :> Range(args_.gc_id)) @@ from_profile
        ELSE from_profile

\* set.intersection(*cluster_sets.values()), for at least one set.
intersection(sets) ==
    {c \in UNION {sets[k] : k \in DOMAIN sets} : \A k \in DOMAIN sets : c \in sets[k]}

\* The clusters named by the lines of args['bad_gcs'] (line.rstrip() is the
\* whole line: a line of one token).
bad_clusters(lines) == {lines[k][1] : k \in {m \in DOMAIN lines : Len(lines[m]) = 1}}

\* The whole function; the list my_clusters is returned as the set of its items
\* (list(set) has no defined order).  err "SystemExit" is a sys.exit().
select_genome_clusters(args_, profile, db, bad_gcs, sorted_abundance) ==
    LET reads == \E n \in {"gc_topn", "gc_cov", "gc_rbun"} : given(args_, n)
        ra == IF reads THEN read_abundance(profile) ELSE Ok(<<>>)
    IN  IF ra.err # "" THEN Raise(ra.err)
        ELSE IF reads /\ \E c \in DOMAIN ra.val : DOMAIN ra.val[c] # Range(profile_fields)
        THEN Raise("KeyError")
        ELSE LET cluster_sets == cluster_sets_of(args_, ra.val, sorted_abundance) IN
             IF DOMAIN cluster_sets = {} THEN Raise("TypeError")
             ELSE LET my_clusters_ == intersection(cluster_sets) IN
                  IF \E c \in my_clusters_ : c \notin db THEN Raise("SystemExit")
                  ELSE IF my_clusters_ \ bad_clusters(bad_gcs) = {} THEN Raise("SystemExit")
                  ELSE Ok(my_clusters_ \ bad_clusters(bad_gcs))

\* ------------------------------------------------------------------ inputs
r1 == <<"r1", "4">>

r2 == <<"r2", "4">>

\* A well-formed line of the alignment file (outfmt 6), twelve tokens.
Line(query, target, pid, aln, score) ==
    <<query, target, <<pid>>, <<aln>>, <<"0">>, <<"0">>, <<"1">>, <<aln>>,
      <<"1">>, <<aln>>, <<"0">>, <<score>>>>

WellFormedLines ==
    { Line(r1, <<"A", "m1">>, "99", "4", "2"),
      Line(r1, <<"B", "m1">>, "99", "4", "2"),
      Line(r1, <<"A", "m1">>, "99", "3", "3"),
      Line(r1, <<"B", "m1">>, "90", "4", "5"),
      Line(r2, <<"A", "m2">>, "90", "4", "2"),
      Line(r2, <<"B", "m1">>, "99", "4", "2"),
      Line(r2, <<"B", "m1">>, "99", "2", "5"),
      Line(r2, <<"Z", "m1">>, "99", "4", "1"),
      Line(r1, <<"A", "m9">>, "99", "4", "2") }

\* Lines of fewer or more than twelve tokens, an empty line, a pid that is no number.
MalformedLines ==
    { SubSeq(Line(r2, <<"B", "m1">>, "99", "4", "2"), 1, 4),
      Line(r2, <<"A", "m1">>, "99", "4", "2") \o << <<"x">> >>,
      << >>,
      Line(r1, <<"A", "m1">>, "x", "4", "2") }

Lines == WellFormedLines \cup MalformedLines

MarkerFiles ==
    { << << <<"m1">>, <<"95">> >>, << <<"m2">>, <<"90">> >> >>,
      << << <<"m1">>, <<"95">> >>, << <<"m2">> >> >> }

RegistryFiles ==
    { << << <<"A">> >>, << <<"B">> >> >>,
      << << <<"A">> >>, << >> >> }

GeneLengthFiles ==
    { << << <<"A", "m1">>, <<"2">> >>, << <<"A", "m2">>, <<"2">> >>,
         << <<"B", "m1">>, <<"8">> >> >>,
      << << <<"A", "m1">>, <<"0">> >> >>,
      << << <<"A", "m1">>, <<"2">> >>, << <<"B", "m1">> >> >> }

\* bp of paths['tempfile'] and the average genome size microbe_census returns.
SampledBp == {"0", "8"}

GenomeSizes == {4}

\* Species profiles (the lines after the header), database listings, lists of
\* bad clusters and criteria for select_genome_clusters.
ProfileLine(c, cov, rel_abun) == << <<c>>, <<cov>>, <<rel_abun>> >>

Profiles ==
    { << ProfileLine("A", "5", "5"), ProfileLine("B", "2", "3"), ProfileLine("C", "1", "2") >>,
      << ProfileLine("A", "5", "1"), ProfileLine("B", "1", "5"), ProfileLine("C", "0", "0") >>,
      << ProfileLine("A", "2", "2"), ProfileLine("B", "2", "2"), ProfileLine("C", "3", "2") >> }

Databases == { { <<"A">>, <<"B">>, <<"C">> } }

BadLists == { << >>, << << <<"B">> >> >> }

Optional(name, values) == {<<>>} \cup {(name :> v) : v \in values}

Criteria ==
    {a @@ b @@ c @@ d :
        a \in Optional("gc_cov", {2}),
        b \in Optional("gc_rbun", {3}),
        c \in Optional("gc_topn", {1, 2}),
        d \in Optional("gc_id", { << <<"A">> >>, << <<"C">> >>, << <<"A">>, <<"B">> >>,
                                  << <<"D">> >> })}

\* ------------------------------------------------------------------ state
VARIABLES
    pc,                \* the statement of estimate_abundance about to run
    err,               \* the exception that ended the run, "" if none
    args,              \* the arguments read so far, by name
    files,             \* what has been read of each input file, by path name
    marker_cutoffs,    \* find_best_hits: marker_cutoffs
    best_hits,         \* find_best_hits: best_hits
    alns,              \* best_hits.values(): the list of groups
    heap,              \* the list objects made by assign_unique, by key
    unique_alns,       \* assign_unique: dict key -> list object
    total_alns,        \* assign_non_unique: dict key -> list object
    j,                 \* assign_non_unique: position in alns
    clusters,          \* assign_non_unique: clusters of the last tied group
    counts,            \* assign_non_unique: counts of the last tied group
    total_gene_length, \* read_gene_lengths: total_gene_length
    cluster_abundance, \* normalize_counts: cluster_abundance
    outfile,           \* the lines of args['out'], <<>> while it does not exist
    sel_pc,            \* select_genome_clusters: "call", "returned", "exited", "failed"
    sel_in,            \* select_genome_clusters: args and the files it reads
    my_clusters        \* select_genome_clusters: the clusters returned

svars == <<sel_pc, sel_in, my_clusters>>

vars ==
    <<svars, pc, err, args, files, marker_cutoffs, best_hits, alns, heap, unique_alns,
      total_alns, j, clusters, counts, total_gene_length, cluster_abundance, outfile>>

InitPipeline ==
    /\ pc = "get_markers"
    /\ err = ""
    /\ args = <<>>
    /\ files = [blastout |-> <<>>]
    /\ marker_cutoffs = <<>>
    /\ best_hits = <<>>
    /\ alns = <<>>
    /\ heap = <<>>
    /\ unique_alns = <<>>
    /\ total_alns = <<>>
    /\ j = 0
    /\ clusters = <<>>
    /\ counts = <<>>
    /\ total_gene_length = <<>>
    /\ cluster_abundance = <<>>
    /\ outfile = <<>>

InitSelect ==
    /\ sel_pc = "idle"
    /\ sel_in = <<>>
    /\ my_clusters = {}

Init == InitPipeline /\ InitSelect

\* An uncaught exception ends estimate_abundance.
Fail(e) == pc' = "failed" /\ err' = e

\* find_best_hits, line 76.
GetMarkers ==
    /\ pc = "get_markers"
    /\ \E infile \in MarkerFiles :
         LET r == get_markers(infile) IN
         /\ files' = ("marker_cutoffs" :> infile) @@ files
         /\ IF r.err # ""
            THEN Fail(r.err) /\ UNCHANGED marker_cutoffs
            ELSE pc' = "find_best_hits" /\ marker_cutoffs' = r.val /\ UNCHANGED err
    /\ UNCHANGED <<svars, args, best_hits, alns, heap, unique_alns, total_alns, j, clusters,
                   counts, total_gene_length, cluster_abundance, outfile>>

\* find_best_hits, lines 79-91: one iteration over the next line of the file.
FindBestHitsStep ==
    /\ pc = "find_best_hits"
    /\ Len(files.blastout) < MaxLines
    /\ \E values \in Lines :
         LET r == best_hits_step(best_hits, marker_cutoffs, values) IN
         /\ files' = [files EXCEPT !.blastout = Append(@, values)]
         /\ IF r.err # ""
            THEN Fail(r.err) /\ UNCHANGED best_hits
            ELSE best_hits' = r.val /\ UNCHANGED <<pc, err>>
    /\ UNCHANGED <<svars, args, marker_cutoffs, alns, heap, unique_alns, total_alns, j,
                   clusters, counts, total_gene_length, cluster_abundance, outfile>>

\* find_best_hits, line 93: the file is exhausted, return best_hits.values().
FindBestHitsReturn ==
    /\ pc = "find_best_hits"
    /\ \E o \in Orders(DOMAIN best_hits) :
         alns' = [k \in DOMAIN o |-> best_hits[o[k]]]
    /\ pc' = "assign_unique"
    /\ UNCHANGED <<svars, err, args, files, marker_cutoffs, best_hits, heap, unique_alns,
                   total_alns, j, clusters, counts, total_gene_length,
                   cluster_abundance, outfile>>

\* assign_unique, lines 95-110.
AssignUnique ==
    /\ pc = "assign_unique"
    /\ \E registry \in RegistryFiles :
         LET keys == cluster_keys(registry)
             r == IF keys.err # "" THEN Raise(keys.err)
                  ELSE assign_unique_from(alns, 1, [c \in keys.val |-> <<>>])
         IN
         /\ files' = ("cluster_ids" :> registry) @@ files
         /\ IF r.err # ""
            THEN Fail(r.err) /\ UNCHANGED <<heap, unique_alns>>
            ELSE /\ heap' = r.val
                 /\ unique_alns' = [c \in DOMAIN r.val |-> c]
                 /\ pc' = "assign_non_unique"
                 /\ UNCHANGED err
    /\ UNCHANGED <<svars, args, marker_cutoffs, best_hits, alns, total_alns, j, clusters,
                   counts, total_gene_length, cluster_abundance, outfile>>

\* assign_non_unique, line 114: total_alns = unique_alns.copy(), a shallow copy:
\* the new dict holds the same list objects.
AssignNonUniqueCopy ==
    /\ pc = "assign_non_unique"
    /\ total_alns' = unique_alns
    /\ j' = 1
    /\ pc' = "reassign"
    /\ UNCHANGED <<svars, err, args, files, marker_cutoffs, best_hits, alns, heap,
                   unique_alns, clusters, counts, total_gene_length,
                   cluster_abundance, outfile>>

\* assign_non_unique, lines 115-124: one iteration of the loop over alns.
AssignNonUniqueStep ==
    /\ pc = "reassign"
    /\ j <= Len(alns)
    /\ IF is_non_unique(alns[j])
       THEN LET cl == clusters_of(alns[j]) IN
            IF \E k \in DOMAIN cl : cl[k] \notin DOMAIN unique_alns
            THEN Fail("KeyError") /\ clusters' = cl /\ UNCHANGED <<heap, j, counts>>
            ELSE LET cn == counts_of(cl, unique_alns, heap) IN
                 /\ clusters' = cl
                 /\ counts' = cn
                 /\ \E k \in drawable(cl, cn) :
                      heap' = [heap EXCEPT ![total_alns[cl[k]]] =
                                  Append(@, chosen_record(alns[j], cl, cl[k]))]
                 /\ j' = j + 1
                 /\ UNCHANGED <<pc, err>>
       ELSE j' = j + 1 /\ UNCHANGED <<pc, err, heap, clusters, counts>>
    /\ UNCHANGED <<svars, args, files, marker_cutoffs, best_hits, alns, unique_alns,
                   total_alns, total_gene_length, cluster_abundance, outfile>>

\* assign_non_unique, line 125, and read_gene_lengths, lines 153-160.
ReadGeneLengths ==
    /\ pc = "reassign"
    /\ j > Len(alns)
    /\ \E lines \in GeneLengthFiles :
         LET r == read_gene_lengths(files.cluster_ids, lines) IN
         /\ files' = ("gene_length" :> lines) @@ files
         /\ IF r.err # ""
            THEN Fail(r.err) /\ UNCHANGED total_gene_length
            ELSE /\ total_gene_length' = r.val
                 /\ pc' = "normalize_counts"
                 /\ UNCHANGED err
    /\ UNCHANGED <<svars, args, marker_cutoffs, best_hits, alns, heap, unique_alns,
                   total_alns, j, clusters, counts, cluster_abundance, outfile>>

\* normalize_counts, lines 162-181, and the test of args['norm'], line 217.
NormalizeCounts ==
    /\ pc = "normalize_counts"
    /\ LET r == normalize_counts(total_alns, heap, total_gene_length) IN
       IF r.err # ""
       THEN Fail(r.err) /\ UNCHANGED <<args, cluster_abundance>>
       ELSE /\ cluster_abundance' = r.val
            /\ \E norm \in BOOLEAN :
                 /\ args' = ("norm" :> norm) @@ args
                 /\ pc' = IF norm THEN "rescale" ELSE "write_abundance"
            /\ UNCHANGED err
    /\ UNCHANGED <<svars, files, marker_cutoffs, best_hits, alns, heap, unique_alns,
                   total_alns, j, clusters, counts, total_gene_length, outfile>>

\* estimate_abundance, lines 217-226.
Rescale ==
    /\ pc = "rescale"
    /\ \E bp \in SampledBp, ags \in GenomeSizes :
         LET r == rescale(cluster_abundance, Rat(Numeral[bp], ags)) IN
         IF r.err # ""
         THEN Fail(r.err) /\ UNCHANGED cluster_abundance
         ELSE /\ cluster_abundance' = r.val
              /\ pc' = "write_abundance"
              /\ UNCHANGED err
    /\ UNCHANGED <<svars, args, files, marker_cutoffs, best_hits, alns, heap, unique_alns,
                   total_alns, j, clusters, counts, total_gene_length, outfile>>

\* write_abundance, lines 242-249.
WriteAbundance ==
    /\ pc = "write_abundance"
    /\ \E o \in Orders(DOMAIN cluster_abundance) :
         outfile' = write_abundance(cluster_abundance, o)
    /\ pc' = "done"
    /\ UNCHANGED <<svars, err, args, files, marker_cutoffs, best_hits, alns, heap,
                   unique_alns, total_alns, j, clusters, counts, total_gene_length,
                   cluster_abundance>>

Next ==
    \/ GetMarkers
    \/ FindBestHitsStep
    \/ FindBestHitsReturn
    \/ AssignUnique
    \/ AssignNonUniqueCopy
    \/ AssignNonUniqueStep
    \/ ReadGeneLengths
    \/ NormalizeCounts
    \/ Rescale
    \/ WriteAbundance

Spec == Init /\ [][Next]_vars

\* select_genome_clusters, lines 266-310, called with any criteria and files.
InitSelectCall ==
    /\ InitPipeline
    /\ sel_pc = "call"
    /\ sel_in \in [args : Criteria, profile : Profiles, db : Databases, bad_gcs : BadLists]
    /\ my_clusters = {}

SelectGenomeClusters ==
    /\ sel_pc = "call"
    /\ LET ra == read_abundance(sel_in.profile) IN
       \E sorted_abundance \in sorted_abundances(ra.val) :
         LET r == select_genome_clusters(sel_in.args, sel_in.profile, sel_in.db,
                                         sel_in.bad_gcs, sorted_abundance)
         IN  IF r.err = "" THEN sel_pc' = "returned" /\ my_clusters' = r.val
             ELSE IF r.err = "SystemExit" THEN sel_pc' = "exited" /\ UNCHANGED my_clusters
             ELSE sel_pc' = "failed" /\ UNCHANGED my_clusters
    /\ UNCHANGED <<sel_in, pc, err, args, files, marker_cutoffs, best_hits, alns, heap,
                   unique_alns, total_alns, j, clusters, counts, total_gene_length,
                   cluster_abundance, outfile>>

NextSelect == SelectGenomeClusters

SelectSpec == InitSelectCall /\ [][NextSelect]_vars

\* ------------------------------------------------------------------ properties
\* What the properties read of the inputs, computed from the files themselves.

\* The ClusterSet: the first token of each line of the registry.
ClusterSet ==
    {files.cluster_ids[k][1] :
        k \in {m \in DOMAIN files.cluster_ids : Len(files.cluster_ids[m]) > 0}}

\* The records of the lines read of the alignment file: their tokens by position
\* (<<>> for a line with a token that is no number where one is due).
Records == [k \in DOMAIN files.blastout |-> parse_blast(files.blastout[k]).val]

\* Every line read yields an AlignmentRecord: all twelve fields are there.
AllComplete(recs) == \A k \in DOMAIN recs : DOMAIN recs[k] = Range(fields)

\* The two filters of the resolver, on a record that has the fields they read.
PassesFilters(r) ==
    /\ {"query", "target", "pid", "aln"} \subseteq DOMAIN r
    /\ <<Last(r.target)>> \in DOMAIN marker_cutoffs
    /\ r.pid >= marker_cutoffs[<<Last(r.target)>>]
    /\ Last(r.query) \in DOMAIN Numeral
    /\ 4 * r.aln >= 3 * Numeral[Last(r.query)]

\* The lines of query q that passed both filters, and those of top score.
AcceptedLines(recs, q) ==
    {k \in DOMAIN recs : recs[k].query = q /\ PassesFilters(recs[k])}

TopLines(recs, acc) ==
    {k \in acc : \A m \in acc : recs[m].score <= recs[k].score}

\* The list object a dict holds for key c.
ListOf(dict, c) == heap[dict[c]]

\* Number of records of query q in the lists of dict.
Occurrences(dict, q) ==
    LET n == [c \in DOMAIN dict |->
                 Cardinality({k \in DOMAIN ListOf(dict, c) : ListOf(dict, c)[k].query = q})]
    IN  SumOver(n, DOMAIN dict)

\* Number of reads assign_unique gave cluster c: the size-1 groups of c.
UniqueReads(c) ==
    Cardinality({q \in DOMAIN best_hits :
                    Len(best_hits[q]) = 1 /\ cluster_id_of(best_hits[q][1]) = c})

\* The stages of a run after assign_unique, the copy, the reassignment and the
\* normalization have completed.
AfterUnique ==
    {"assign_non_unique", "reassign", "normalize_counts", "rescale",
     "write_abundance", "done"}

AfterCopy == AfterUnique \ {"assign_non_unique"}

Reassigned ==
    \/ pc = "reassign" /\ j > Len(alns)
    \/ pc \in {"normalize_counts", "rescale", "write_abundance", "done"}

Normalized == pc \in {"rescale", "write_abundance", "done"}

\* C1: in assign_non_unique the weight of every candidate cluster of an ambiguous
\* group is the number of uniquely-mapped reads assign_unique gave that cluster,
\* whatever was reassigned earlier in the pass.
C1_FixedPrior ==
    pc = "reassign" /\ counts # <<>> =>
        \A k \in DOMAIN counts : counts[k] = UniqueReads(clusters[k])

\* C2: after any sequence of alignment records, a query has a group iff one of
\* its records passed both filters; the group is non-empty and holds exactly the
\* accepted records of the query that have its maximum score, whatever their order.
C2_BestHitGroups ==
    LET recs == Records IN
    pc \in {"find_best_hits", "assign_unique"} /\ AllComplete(recs) =>
        /\ DOMAIN best_hits =
               {recs[k].query : k \in {m \in DOMAIN recs : PassesFilters(recs[m])}}
        /\ \A q \in DOMAIN best_hits :
             LET top == TopLines(recs, AcceptedLines(recs, q)) IN
             /\ Len(best_hits[q]) >= 1
             /\ Range(best_hits[q]) = {recs[k] : k \in top}
             /\ Len(best_hits[q]) = Cardinality(top)
             /\ \A a, b \in Range(best_hits[q]) : a.score = b.score

C2_Witness ==
    LET recs == Records IN
    /\ pc = "assign_unique"
    /\ AllComplete(recs)
    /\ \E q \in DOMAIN best_hits :
         /\ Len(best_hits[q]) = 2
         /\ Cardinality(AcceptedLines(recs, q)) = 3
         /\ \E k \in DOMAIN recs : recs[k].query = q /\ ~PassesFilters(recs[k])

\* C3: every record of a best-hit group, and so of a cluster's alignment list,
\* has percent identity >= the cutoff of its marker and covers >= 0.75 of its read.
C3_FilterCorrectness ==
    /\ \A q \in DOMAIN best_hits : \A r \in Range(best_hits[q]) : PassesFilters(r)
    /\ \A c \in DOMAIN heap : \A r \in Range(heap[c]) : PassesFilters(r)

C3_Witness ==
    LET recs == Records IN
    /\ pc = "done"
    /\ AllComplete(recs)
    /\ \E k \in DOMAIN recs : recs[k].pid < marker_cutoffs[<<Last(recs[k].target)>>]
    /\ \E k \in DOMAIN recs : 4 * recs[k].aln < 3 * Numeral[Last(recs[k].query)]
    /\ \E c \in DOMAIN heap : heap[c] # <<>>

\* C4: after assign_unique and assign_non_unique every query with a group has
\* exactly one record in exactly one cluster's list, and the lengths of the lists
\* sum to the number of groups.
C4_Conservation ==
    Reassigned =>
        /\ Len(alns) = Cardinality(DOMAIN best_hits)
        /\ SumOver([c \in DOMAIN total_alns |-> Len(ListOf(total_alns, c))],
                   DOMAIN total_alns) = Len(alns)
        /\ \A q \in DOMAIN best_hits : Occurrences(total_alns, q) = 1

C4_Witness ==
    /\ pc = "done"
    /\ \E q \in DOMAIN best_hits : Len(best_hits[q]) = 1
    /\ \E q \in DOMAIN best_hits : Len(best_hits[q]) > 1

\* C5: at every stage of a run the per-cluster structure has exactly the keys of
\* the ClusterSet: unique_alns, total_alns, cluster_abundance and the rows written,
\* clusters without reads included, with coverage 0.
C5_KeysAreClusterSet ==
    /\ pc \in AfterUnique => DOMAIN unique_alns = ClusterSet
    /\ pc \in AfterCopy => DOMAIN total_alns = ClusterSet
    /\ Normalized =>
         /\ DOMAIN cluster_abundance = ClusterSet
         /\ \A c \in ClusterSet :
              ListOf(total_alns, c) = <<>> => cluster_abundance[c].cov = Zero
    /\ pc = "done" =>
         /\ Len(outfile) = 1 + Cardinality(ClusterSet)
         /\ {outfile[k][1] : k \in 2 .. Len(outfile)} = ClusterSet

C5_Witness ==
    /\ pc = "done"
    /\ \E c \in ClusterSet : ListOf(total_alns, c) = <<>>
    /\ \E c \in ClusterSet : ListOf(total_alns, c) # <<>>

\* The total gene length of cluster c in the gene length file.
GeneLength(c) ==
    LET lines == files.gene_length
        len == [k \in DOMAIN lines |->
                   IF <<lines[k][1][1]>> = c THEN Numeral[lines[k][2][1]] ELSE 0]
    IN  SeqSum(len)

\* The bases assigned to cluster c.
Bases(c) ==
    LET l == ListOf(total_alns, c) IN SeqSum([k \in DOMAIN l |-> l[k].aln])

\* The run takes the rescaling of lines 217-226.
Rescaled == "norm" \in DOMAIN args /\ args.norm

NoReads == \A c \in DOMAIN total_alns : ListOf(total_alns, c) = <<>>

\* C6: without rescaling, coverage is assigned bases / gene length; the relative
\* abundances are coverage / total coverage and sum to 1 when the total is > 0;
\* with no read assigned both are 0 for every cluster and the table is written.
C6_Normalization ==
    /\ pc \in {"write_abundance", "done"} /\ ~Rescaled =>
         LET cov == [c \in DOMAIN cluster_abundance |-> cluster_abundance[c].cov]
             rel == [c \in DOMAIN cluster_abundance |-> cluster_abundance[c].rel_abun]
             total == RatSum(cov, DOMAIN cov)
         IN  /\ \A c \in DOMAIN cov : cov[c][1] * GeneLength(c) = Bases(c) * cov[c][2]
             /\ \A c \in DOMAIN cov : cov[c][2] > 0 /\ rel[c][2] > 0
             /\ total[1] > 0 =>
                  /\ \A c \in DOMAIN cov :
                       rel[c][1] * total[1] * cov[c][2] = cov[c][1] * total[2] * rel[c][2]
                  /\ RatSum(rel, DOMAIN rel) = <<1, 1>>
             /\ NoReads => \A c \in DOMAIN cov : cov[c] = Zero /\ rel[c] = Zero
             /\ pc = "done" => Len(outfile) = 1 + Cardinality(DOMAIN cov)
    /\ pc = "failed" /\ "gene_length" \in DOMAIN files /\ total_gene_length # <<>> /\ ~Rescaled =>
         ~NoReads

C6_Witness ==
    /\ pc = "done"
    /\ ~Rescaled
    /\ Cardinality({c \in DOMAIN cluster_abundance : cluster_abundance[c].cov[1] > 0}) = 2

\* C7: a line of the alignment file that has not exactly 12 tokens makes the
\* reader fail and the run abort; it is not skipped, truncated or accepted.
C7_MalformedLineAborts ==
    \A k \in DOMAIN files.blastout : Len(files.blastout[k]) # 12 => pc = "failed"

\* The faults of the inputs that C8 names.
MissingMarker ==
    \E k \in DOMAIN files.blastout :
        /\ Len(files.blastout[k]) >= 2
        /\ <<Last(files.blastout[k][2])>> \notin
               {files.marker_cutoffs[m][1] : m \in DOMAIN files.marker_cutoffs}

MissingCluster ==
    /\ "cluster_ids" \in DOMAIN files
    /\ \E q \in DOMAIN best_hits : \E r \in Range(best_hits[q]) :
         <<r.target[1]>> \notin ClusterSet

ZeroDenominator ==
    /\ "gene_length" \in DOMAIN files
    /\ \A k \in DOMAIN files.gene_length :
         Len(files.gene_length[k]) >= 2 /\ IsNumber(files.gene_length[k][2])
    /\ \E c \in DOMAIN total_alns : Bases(c) > 0 /\ GeneLength(c) = 0

MalformedTable ==
    \/ \E k \in DOMAIN files.marker_cutoffs : Len(files.marker_cutoffs[k]) # 2
    \/ "cluster_ids" \in DOMAIN files
         /\ \E k \in DOMAIN files.cluster_ids : Len(files.cluster_ids[k]) = 0
    \/ "gene_length" \in DOMAIN files
         /\ \E k \in DOMAIN files.gene_length : Len(files.gene_length[k]) < 2

\* C8: the abundance file is written only after every earlier step has completed
\* without error; a missing marker or cluster, a zero gene length under assigned
\* bases or a malformed table line halts the run with no file written.
C8_NoPartialOutput ==
    /\ outfile # <<>> =>
         /\ pc = "done" /\ err = ""
         /\ {"marker_cutoffs", "cluster_ids", "gene_length"} \subseteq DOMAIN files
         /\ DOMAIN cluster_abundance = DOMAIN total_alns
         /\ ~MissingMarker /\ ~MissingCluster /\ ~ZeroDenominator /\ ~MalformedTable
    /\ "marker_cutoffs" \in DOMAIN files =>
         /\ MissingMarker \/ MalformedTable => pc = "failed"
         /\ MissingCluster =>
              pc = "failed" \/ pc = "assign_non_unique" \/ (pc = "reassign" /\ j <= Len(alns))
         /\ ZeroDenominator => pc = "failed" \/ pc = "normalize_counts"
    /\ pc = "failed" => err # "" /\ outfile = <<>>
    /\ err # "" => pc = "failed"

C8_Witness ==
    /\ pc = "failed"
    /\ ZeroDenominator
    /\ outfile = <<>>

\* C9: every record of a cluster's list has that cluster as the prefix of its
\* target and is a member of the best-hit group of its query, also for the
\* record appended for an ambiguous group.
C9_RecordInItsCluster ==
    pc \in AfterCopy =>
        \A c \in DOMAIN total_alns : \A r \in Range(ListOf(total_alns, c)) :
            /\ <<r.target[1]>> = c
            /\ r \in Range(best_hits[r.query])

C9_Witness ==
    /\ pc = "done"
    /\ \E q \in DOMAIN best_hits :
         /\ Len(best_hits[q]) = 3
         /\ cluster_id_of(best_hits[q][1]) # cluster_id_of(best_hits[q][2])
         /\ \E c \in DOMAIN total_alns : best_hits[q][2] \in Range(ListOf(total_alns, c))

\* C10: every cluster select_genome_clusters returns meets every criterion that
\* was supplied: coverage >= gc_cov, relative abundance >= gc_rbun, among the
\* gc_topn highest relative abundances, listed in gc_id.
C10_AllCriteriaMet ==
    sel_pc = "returned" =>
        LET a == sel_in.args
            p == read_abundance(sel_in.profile).val
        IN  \A c \in my_clusters :
                /\ given(a, "gc_cov") => c \in DOMAIN p /\ p[c].cov >= a.gc_cov
                /\ given(a, "gc_rbun") => c \in DOMAIN p /\ p[c].rel_abun >= a.gc_rbun
                /\ given(a, "gc_topn") =>
                     /\ c \in DOMAIN p
                     /\ Cardinality({d \in DOMAIN p : p[d].rel_abun > p[c].rel_abun})
                            < a.gc_topn
                /\ given(a, "gc_id") => c \in Range(a.gc_id)
====
